---------------------------- MODULE Spec2Model ----------------------------
(***************************************************************************)
(* PDF Facts Analyzer (backend/app.py): the snippet-matching engine and    *)
(* the /api/extract handler around it.                                     *)
(*                                                                         *)
(* A Python str is a sequence of one-character strings; offsets are the    *)
(* 0-based, end-exclusive offsets of the code.  A float score is kept as   *)
(* the exact fraction [num, den] of the value the code computes (ratio is  *)
(* 2*M/T, the keyword bonus hits/10), compared by cross-multiplication.    *)
(* An optional value (None or x) is <<>> or <<x>>.                         *)
(***************************************************************************)
EXTENDS Integers, Sequences, FiniteSets, TLC

VARIABLES
    pc,            \* position of the operation under way
    sentence,      \* compute_similarity: its sentence argument
    pointer,       \* the pointer argument of the core functions
    score,         \* compute_similarity: its result
    page_text,     \* find_snippets: its page_text argument
    max_snippets,  \* find_snippets: its max_snippets argument
    snippets,      \* find_snippets: its result
    pages,         \* the pages handed to build_response_entry / read from the PDF
    entry,         \* build_response_entry: its result
    pointers,      \* extract_facts: the raw pointers form field (JSON tokens)
    pointer_list,  \* extract_facts: json.loads(pointers)
    uploads,       \* extract_facts: files written to UPLOAD_DIR
    status,        \* extract_facts: HTTP status of the response (0: none yet)
    payload        \* extract_facts: the JSON payload of the response

vars == <<pc, sentence, pointer, score, page_text, max_snippets, snippets,
          pages, entry, pointers, pointer_list, uploads, status, payload>>

-----------------------------------------------------------------------------
(* Bounds of the model.                                                    *)

MaxSentenceLen == 3    \* compute_similarity: longest sentence tried
MaxPointerLen == 3     \* compute_similarity: longest pointer tried
MaxTextLen == 5        \* find_snippets: longest page text tried
MaxSnippetsArg == 2    \* find_snippets: largest max_snippets tried
MaxEntryPages == 2     \* build_response_entry: most pages tried
MaxPages == 3          \* extract_facts: most pages of the uploaded PDF
MaxTokens == 5         \* extract_facts: most JSON tokens of the pointers field

-----------------------------------------------------------------------------
(* Characters and strings.                                                 *)

None == <<>>
Some(x) == <<x>>

Min(x, y) == IF x <= y THEN x ELSE y
SetMax(S) == CHOOSE x \in S : \A y \in S : y <= x
SetMin(S) == CHOOSE x \in S : \A y \in S : x <= y

\* s[lo:hi] of Python, 0-based, end-exclusive, 0 <= lo <= hi <= len(s).
Slice(s, lo, hi) == [k \in 1..(hi - lo) |-> s[lo + k]]

UpperLetters == <<"A","B","C","D","E","F","G","H","I","J","K","L","M",
                  "N","O","P","Q","R","S","T","U","V","W","X","Y","Z">>
LowerLetters == <<"a","b","c","d","e","f","g","h","i","j","k","l","m",
                  "n","o","p","q","r","s","t","u","v","w","x","y","z">>
Digits == {"0","1","2","3","4","5","6","7","8","9"}

\* str.lower() on one character, and on a string (the ASCII letters).
LowerChar(c) ==
    IF \E k \in 1..26 : UpperLetters[k] = c
    THEN LowerLetters[CHOOSE k \in 1..26 : UpperLetters[k] = c]
    ELSE c
Lower(s) == [k \in 1..Len(s) |-> LowerChar(s[k])]

\* The characters \w matches (the ASCII ones).
WordChars ==
    {UpperLetters[k] : k \in 1..26} \cup {LowerLetters[k] : k \in 1..26}
        \cup Digits \cup {"_"}

\* The characters str.strip() removes.
Whitespace == {" ", "\t", "\n", "\r", "\f"}

\* str.strip(): the offsets [lo, hi) of what is left of s, and the string.
StripLo(s) ==
    IF \A k \in 1..Len(s) : s[k] \in Whitespace THEN Len(s)
    ELSE (CHOOSE k \in 1..Len(s) :
             /\ s[k] \notin Whitespace
             /\ \A m \in 1..(k - 1) : s[m] \in Whitespace) - 1
StripHi(s) ==
    IF \A k \in 1..Len(s) : s[k] \in Whitespace THEN Len(s)
    ELSE CHOOSE k \in 1..Len(s) :
             /\ s[k] \notin Whitespace
             /\ \A m \in (k + 1)..Len(s) : s[m] \in Whitespace
Strip(s) == Slice(s, StripLo(s), StripHi(s))

\* `needle in hay` of Python on strings.
Contains(hay, needle) ==
    \E lo \in 0..(Len(hay) - Len(needle)) :
        Slice(hay, lo, lo + Len(needle)) = needle

\* re.findall(r"\w+", s): scan from offset i, each token a maximal run of
\* word characters.
RECURSIVE WordRunEnd(_, _)
WordRunEnd(s, i) ==
    IF i < Len(s) /\ s[i + 1] \in WordChars THEN WordRunEnd(s, i + 1) ELSE i
RECURSIVE FindWordsFrom(_, _)
FindWordsFrom(s, i) ==
    IF i >= Len(s) THEN <<>>
    ELSE IF s[i + 1] \notin WordChars THEN FindWordsFrom(s, i + 1)
    ELSE <<Slice(s, i, WordRunEnd(s, i))>> \o FindWordsFrom(s, WordRunEnd(s, i))
FindWords(s) == FindWordsFrom(s, 0)

-----------------------------------------------------------------------------
(* difflib.SequenceMatcher(None, a, b).ratio(), for len(b) < 200 (below    *)
(* that length the autojunk heuristic never drops a character of b).       *)

\* Length of the common run of a from i and b from j, inside [.., ahi) x [.., bhi).
RECURSIVE BlockLen(_, _, _, _, _, _)
BlockLen(a, b, i, j, ahi, bhi) ==
    IF i < ahi /\ j < bhi /\ a[i + 1] = b[j + 1]
    THEN 1 + BlockLen(a, b, i + 1, j + 1, ahi, bhi)
    ELSE 0

\* find_longest_match(alo, ahi, blo, bhi): the longest matching block, the one
\* starting earliest in a, and of those the one starting earliest in b.
FindLongestMatch(a, b, alo, ahi, blo, bhi) ==
    LET cells == {<<i, j, BlockLen(a, b, i, j, ahi, bhi)>> :
                     i \in alo..(ahi - 1), j \in blo..(bhi - 1)}
        best == SetMax({c[3] : c \in cells} \cup {0})
        longest == {c \in cells : c[3] = best}
        bi == SetMin({c[1] : c \in longest})
        bj == SetMin({c[2] : c \in {d \in longest : d[1] = bi}})
    IN  IF best = 0 THEN [i |-> alo, j |-> blo, size |-> 0]
        ELSE [i |-> bi, j |-> bj, size |-> best]

\* get_matching_blocks(): the total size of the blocks, found by splitting
\* around the longest match and recursing on both sides.
RECURSIVE MatchingChars(_, _, _, _, _, _)
MatchingChars(a, b, alo, ahi, blo, bhi) ==
    LET m == FindLongestMatch(a, b, alo, ahi, blo, bhi)
    IN  IF m.size = 0 THEN 0
        ELSE m.size
             + (IF alo < m.i /\ blo < m.j
                THEN MatchingChars(a, b, alo, m.i, blo, m.j) ELSE 0)
             + (IF m.i + m.size < ahi /\ m.j + m.size < bhi
                THEN MatchingChars(a, b, m.i + m.size, ahi, m.j + m.size, bhi)
                ELSE 0)

\* ratio(): 2.0 * matches / (len(a) + len(b)), and 1.0 for two empty strings.
Ratio(a, b) ==
    IF Len(a) + Len(b) = 0 THEN [num |-> 1, den |-> 1]
    ELSE [num |-> 2 * MatchingChars(a, b, 0, Len(a), 0, Len(b)),
          den |-> Len(a) + Len(b)]

\* Fractions with positive denominators.
FracAdd(x, y) == [num |-> x.num * y.den + y.num * x.den, den |-> x.den * y.den]
FracLess(x, y) == x.num * y.den < y.num * x.den
FracEq(x, y) == x.num * y.den = y.num * x.den

-----------------------------------------------------------------------------
(* compute_similarity                                                      *)

\* sum(1 for token in re.findall(r"\w+", pointer.lower()) if token in sentence.lower())
KeywordHitsDedup(sent, ptr) ==
    Cardinality({t \in {FindWords(Lower(ptr))[k] : k \in 1..Len(FindWords(Lower(ptr)))} :
                    Contains(Lower(sent), t)})
keyword_hits(sent, ptr) ==
    LET tokens == FindWords(Lower(ptr))
    IN  Cardinality({k \in 1..Len(tokens) : Contains(Lower(sent), tokens[k])})

compute_similarity(sent, ptr) ==
    FracAdd(Ratio(Lower(sent), Lower(ptr)),
            [num |-> keyword_hits(sent, ptr), den |-> 10])

-----------------------------------------------------------------------------
(* find_snippets                                                           *)

DefaultMaxSnippets == 2

\* The characters the class [^.!?\\n] of the raw-string pattern excludes:
\* the three terminators, the backslash and the letter n.
Excluded == {".", "!", "?", "\\", "n"}
\* The characters the class [.!?] matches.
Terminators == {".", "!", "?"}

\* pattern.finditer(page_text): from offset i, the matches [start, end) of
\* [^.!?\\n]+[.!?]? in scan order.  An excluded character starts no match;
\* a run of other characters is taken whole, with one terminator after it.
RECURSIVE RunEnd(_, _)
RunEnd(text, i) ==
    IF i < Len(text) /\ text[i + 1] \notin Excluded THEN RunEnd(text, i + 1) ELSE i
MatchEnd(text, i) ==
    LET j == RunEnd(text, i)
    IN  IF j < Len(text) /\ text[j + 1] \in Terminators THEN j + 1 ELSE j
RECURSIVE FindIterFrom(_, _)
FindIterFrom(text, i) ==
    IF i >= Len(text) THEN <<>>
    ELSE IF text[i + 1] \in Excluded THEN FindIterFrom(text, i + 1)
    ELSE <<[start |-> i, end |-> MatchEnd(text, i)]>>
             \o FindIterFrom(text, MatchEnd(text, i))
finditer(text) == FindIterFrom(text, 0)

\* The loop of find_snippets: one candidate per match whose stripped text is
\* not empty, in scan order.
RECURSIVE CandidatesOf(_, _, _)
CandidatesOf(text, ptr, spans) ==
    IF spans = <<>> THEN <<>>
    ELSE LET match == Head(spans)
             sent == Strip(Slice(text, match.start, match.end))
         IN  IF sent = <<>> THEN CandidatesOf(text, ptr, Tail(spans))
             ELSE <<[snippet |-> sent,
                     start |-> match.start,
                     end |-> match.end,
                     score |-> compute_similarity(sent, ptr)]>>
                      \o CandidatesOf(text, ptr, Tail(spans))
candidates(text, ptr) == CandidatesOf(text, ptr, finditer(text))

\* list.sort(key=lambda item: item["score"], reverse=True): stable, the
\* higher score first; an element goes after every element not below it.
RECURSIVE InsertBeforeTies(_, _)
InsertBeforeTies(sorted, item) ==
    IF sorted = <<>> THEN <<item>>
    ELSE IF ~FracLess(item.score, Head(sorted).score) THEN <<item>> \o sorted
    ELSE <<Head(sorted)>> \o InsertBeforeTies(Tail(sorted), item)
RECURSIVE InsertByScore(_, _)
InsertByScore(sorted, item) ==
    IF sorted = <<>> THEN <<item>>
    ELSE IF FracLess(Head(sorted).score, item.score) THEN <<item>> \o sorted
    ELSE <<Head(sorted)>> \o InsertByScore(Tail(sorted), item)
RECURSIVE SortFrom(_, _, _)
SortFrom(seq, k, sorted) ==
    IF k > Len(seq) THEN sorted
    ELSE SortFrom(seq, k + 1, InsertByScore(sorted, seq[k]))
SortByScoreAsc(seq) ==
    LET desc == SortFrom(seq, 1, <<>>)
    IN  [k \in 1..Len(desc) |-> desc[Len(desc) + 1 - k]]
SortByScoreDesc(seq) == SortFrom(seq, 1, <<>>)

\* candidates[:max_snippets], max_snippets >= 0.
FindSnippetsUntrimmed(text, ptr, k) ==
    LET raw == finditer(text)
        all == SortByScoreDesc(
                   [m \in 1..Len(raw) |->
                       [snippet |-> Slice(text, raw[m].start, raw[m].end),
                        start |-> raw[m].start,
                        end |-> raw[m].end,
                        score |-> compute_similarity(
                                     Slice(text, raw[m].start, raw[m].end), ptr)]])
    IN  SubSeq(all, 1, Min(k, Len(all)))
find_snippets(text, ptr, k) ==
    LET all == SortByScoreDesc(candidates(text, ptr))
    IN  SubSeq(all, 1, Min(k, Len(all)))

-----------------------------------------------------------------------------
(* build_response_entry                                                    *)

\* f"{score:.2f}": the score in hundredths, rounded to the nearest, a tie to
\* the even one.  (On a score exactly halfway between two hundredths the
\* rounding error of the double decides the digit the code prints; the
\* fraction here has none.)
FormatScore(x) ==
    LET q == (100 * x.num) \div x.den
        r == (100 * x.num) % x.den
    IN  IF 2 * r > x.den THEN q + 1
        ELSE IF 2 * r = x.den THEN q + (q % 2)
        ELSE q

\* The key of the final sort for an entry without a page.
NoPageKey == 1000000

\* The match entries of one page, in the order find_snippets returned them.
PageMatches(ptr, page) ==
    LET found == find_snippets(page.text, ptr, DefaultMaxSnippets)
    IN  [k \in 1..Len(found) |->
            [snippet |-> found[k].snippet,
             page |-> Some(page.page),
             start |-> Some(found[k].start),
             end |-> Some(found[k].end),
             rationale |-> [text |-> "Sentence matched pointer with similarity",
                            pointer |-> ptr,
                            similarity |-> Some(FormatScore(found[k].score))]]]

\* The loop over the pages: matches.append(...) for each snippet of each page.
RECURSIVE CollectMatches(_, _, _)
CollectMatches(ptr, pgs, k) ==
    IF k > Len(pgs) THEN <<>>
    ELSE PageMatches(ptr, pgs[k]) \o CollectMatches(ptr, pgs, k + 1)

\* The entry returned when no page gave a snippet.
NoMatchEntry ==
    [snippet |-> <<>>,
     page |-> None,
     start |-> None,
     end |-> None,
     rationale |-> [text |-> "No matching text found for the pointer.",
                    pointer |-> <<>>,
                    similarity |-> None]]

\* matches.sort(key=lambda item: item["page"] if item["page"] is not None
\* else 1_000_000): stable, the lower page first.
PageKey(item) == IF item.page # None THEN item.page[1] ELSE NoPageKey
RECURSIVE InsertByPage(_, _)
InsertByPage(sorted, item) ==
    IF sorted = <<>> THEN <<item>>
    ELSE IF PageKey(item) < PageKey(Head(sorted)) THEN <<item>> \o sorted
    ELSE <<Head(sorted)>> \o InsertByPage(Tail(sorted), item)
RECURSIVE SortPagesFrom(_, _, _)
SortPagesFrom(seq, k, sorted) ==
    IF k > Len(seq) THEN sorted
    ELSE SortPagesFrom(seq, k + 1, InsertByPage(sorted, seq[k]))
SortByPage(seq) == SortPagesFrom(seq, 1, <<>>)

BuildEntryNoFallback(ptr, pgs) ==
    [pointer |-> ptr, matches |-> SortByPage(CollectMatches(ptr, pgs, 1))]
BuildEntryUnsorted(ptr, pgs) ==
    LET matches == CollectMatches(ptr, pgs, 1)
    IN  IF matches = <<>>
        THEN [pointer |-> ptr, matches |-> <<NoMatchEntry>>]
        ELSE [pointer |-> ptr, matches |-> matches]
build_response_entry(ptr, pgs) ==
    LET matches == CollectMatches(ptr, pgs, 1)
    IN  IF matches = <<>>
        THEN [pointer |-> ptr, matches |-> <<NoMatchEntry>>]
        ELSE [pointer |-> ptr, matches |-> SortByPage(matches)]

-----------------------------------------------------------------------------
(* load_pdf_pages                                                          *)

\* One Page per page of the reader, numbered from 1; extract_text() gives a
\* text or nothing (None or ""), and `or ""` makes nothing the empty text.
load_pdf_pages(doc) ==
    [idx \in 1..Len(doc) |->
        [page |-> idx, text |-> IF doc[idx] = None THEN <<>> ELSE doc[idx][1]]]

-----------------------------------------------------------------------------
(* extract_facts: the pointers form field and its validation               *)

\* The field as JSON tokens: brackets, comma, string and number literals.
LB == [t |-> "lb", v |-> <<>>]
RB == [t |-> "rb", v |-> <<>>]
Comma == [t |-> "comma", v |-> <<>>]
StrTok(chars) == [t |-> "str", v |-> chars]
NumTok(chars) == [t |-> "num", v |-> chars]

IsScalarTok(tok) == tok.t \in {"str", "num"}
ScalarValue(tok) == [type |-> IF tok.t = "str" THEN "str" ELSE "int", v |-> tok.v]

\* The items between the brackets: empty, or scalars separated by commas.
ItemsWellFormed(inner) ==
    \/ inner = <<>>
    \/ /\ Len(inner) % 2 = 1
       /\ \A k \in 1..Len(inner) :
            IF k % 2 = 1 THEN IsScalarTok(inner[k]) ELSE inner[k] = Comma
ItemsOf(inner) ==
    [k \in 1..((Len(inner) + 1) \div 2) |-> ScalarValue(inner[2 * k - 1])]

\* json.loads on the token sequence: a scalar, a flat array of scalars, or a
\* JSONDecodeError (a ValueError).
json_loads(toks) ==
    IF Len(toks) = 1 /\ IsScalarTok(toks[1])
    THEN [ok |-> TRUE, type |-> toks[1].t, items |-> <<>>]
    ELSE IF /\ Len(toks) >= 2
            /\ toks[1] = LB
            /\ toks[Len(toks)] = RB
            /\ ItemsWellFormed(SubSeq(toks, 2, Len(toks) - 1))
    THEN [ok |-> TRUE, type |-> "list",
          items |-> ItemsOf(SubSeq(toks, 2, Len(toks) - 1))]
    ELSE [ok |-> FALSE, type |-> "error", items |-> <<>>]

\* Lines 108-119: the detail of the 400 the field is rejected with (the
\* first one without the quotes around its first word), or "" when the
\* field is accepted.
RejectionNoTypeCheck(toks) ==
    LET parsed == json_loads(toks)
    IN  IF ~parsed.ok \/ parsed.type # "list"
        THEN "pointers must be a JSON array of strings"
        ELSE IF parsed.items = <<>>
        THEN "At least one pointer is required"
        ELSE ""
Rejection(toks) ==
    LET parsed == json_loads(toks)
    IN  IF ~parsed.ok \/ parsed.type # "list"
        THEN "pointers must be a JSON array of strings"
        ELSE IF parsed.items = <<>>
        THEN "At least one pointer is required"
        ELSE IF ~(\A k \in 1..Len(parsed.items) : parsed.items[k].type = "str")
        THEN "All pointers must be strings"
        ELSE ""

\* Line 132: one report per pointer of the list, in its order.
ReportsDeduplicated(plist, pgs) ==
    LET firsts == SelectSeq([k \in 1..Len(plist) |-> k],
                            LAMBDA k : \A m \in 1..(k - 1) : plist[m] # plist[k])
    IN  [k \in 1..Len(firsts) |-> build_response_entry(plist[firsts[k]], pgs)]
pointer_reports(plist, pgs) ==
    [k \in 1..Len(plist) |-> build_response_entry(plist[k], pgs)]

-----------------------------------------------------------------------------
(* Inputs.                                                                 *)

StringsUpTo(alphabet, n) == UNION {[1..k -> alphabet] : k \in 0..n}

\* compute_similarity
Sentences == StringsUpTo({"a", "A", "b"}, MaxSentenceLen)
SimPointers == StringsUpTo({"a", "A", " "}, MaxPointerLen)

\* find_snippets
PageTexts == StringsUpTo({"a", "n", ".", " "}, MaxTextLen)
SnippetPointers == {<<>>, <<"a">>, <<"a", " ", "n">>}

\* build_response_entry: the sample contract's sentence (sample_data/
\* generate_sample_pdf.py, line 14) and a pointer to it, among other texts.
SampleSentence ==
    <<"T", "o", "t", "a", "l", " ", "c", "o", "n", "t", "r", "a", "c",
    "t", " ", "v", "a", "l", "u", "e", ":", " ", "$", "2", "5", "0", ",",
    "0", "0", "0", " ", "s", "p", "l", "i", "t", " ", "a", "c", "r", "o",
    "s", "s", " ", "m", "i", "l", "e", "s", "t", "o", "n", "e", "s", ".">>
SamplePointer ==
    <<"t", "o", "t", "a", "l", " ", "c", "o", "n", "t", "r", "a", "c",
    "t", " ", "v", "a", "l", "u", "e">>
EntryTexts ==
    { <<>>,
      <<" ">>,
      <<"b", ".", "a", ".">>,
      <<"a", ".", " ", "b", ".", " ", "a", "b">>,
      SampleSentence }
EntryPointers == {<<>>, <<"a">>, SamplePointer}
PageSequences ==
    {pgs \in UNION {[1..k -> [page : 1..MaxEntryPages, text : EntryTexts]] :
                       k \in 0..MaxEntryPages} :
        \A i, j \in 1..Len(pgs) : i # j => pgs[i].page # pgs[j].page}

\* extract_facts: what extract_text() gives for a page, the PDFs, the tokens
\* of the pointers field, the name of the upload.
ExtractedTexts ==
    {None, Some(<<>>), Some(<<"b", ".", "a", ".">>), Some(<<"a", "n", "a">>)}
Documents == UNION {[1..k -> ExtractedTexts] : k \in 0..MaxPages}
Tokens == {LB, RB, Comma, StrTok(<<"a">>), StrTok(<<>>), NumTok(<<"1">>)}
PointerFields == UNION {[1..k -> Tokens] : k \in 0..MaxTokens}
FileName == "contract.pdf"

-----------------------------------------------------------------------------
(* compute_similarity applied to a sentence and a pointer.                 *)

Idle == <<>>
NoStatus == [code |-> 0, detail |-> ""]

InitSim ==
    /\ pc = "similarity"
    /\ sentence \in Sentences
    /\ pointer \in SimPointers
    /\ score = None
    /\ page_text = Idle /\ max_snippets = 0 /\ snippets = Idle
    /\ pages = Idle /\ entry = None
    /\ pointers = Idle /\ pointer_list = Idle /\ uploads = {}
    /\ status = NoStatus /\ payload = None

ComputeSimilarity ==
    /\ pc = "similarity"
    /\ score' = Some(compute_similarity(sentence, pointer))
    /\ pc' = "similarity_done"
    /\ UNCHANGED <<sentence, pointer, page_text, max_snippets, snippets, pages,
                   entry, pointers, pointer_list, uploads, status, payload>>

SpecSim == InitSim /\ [][ComputeSimilarity]_vars

-----------------------------------------------------------------------------
(* find_snippets applied to a page text, a pointer and max_snippets.       *)

InitSnip ==
    /\ pc = "snippets"
    /\ page_text \in PageTexts
    /\ pointer \in SnippetPointers
    /\ max_snippets \in 0..MaxSnippetsArg
    /\ snippets = None
    /\ sentence = Idle /\ score = None
    /\ pages = Idle /\ entry = None
    /\ pointers = Idle /\ pointer_list = Idle /\ uploads = {}
    /\ status = NoStatus /\ payload = None

FindSnippets ==
    /\ pc = "snippets"
    /\ snippets' = Some(find_snippets(page_text, pointer, max_snippets))
    /\ pc' = "snippets_done"
    /\ UNCHANGED <<sentence, pointer, score, page_text, max_snippets, pages,
                   entry, pointers, pointer_list, uploads, status, payload>>

SpecSnip == InitSnip /\ [][FindSnippets]_vars

-----------------------------------------------------------------------------
(* build_response_entry applied to a pointer and a sequence of pages.      *)

InitEntry ==
    /\ pc = "entry"
    /\ pointer \in EntryPointers
    /\ pages \in PageSequences
    /\ entry = None
    /\ sentence = Idle /\ score = None
    /\ page_text = Idle /\ max_snippets = 0 /\ snippets = Idle
    /\ pointers = Idle /\ pointer_list = Idle /\ uploads = {}
    /\ status = NoStatus /\ payload = None

BuildResponseEntry ==
    /\ pc = "entry"
    /\ entry' = Some(build_response_entry(pointer, pages))
    /\ pc' = "entry_done"
    /\ UNCHANGED <<sentence, pointer, score, page_text, max_snippets, snippets,
                   pages, pointers, pointer_list, uploads, status, payload>>

SpecEntry == InitEntry /\ [][BuildResponseEntry]_vars

-----------------------------------------------------------------------------
(* extract_facts: one request to /api/extract.                             *)

Init ==
    /\ pc = "request"
    /\ pointers \in PointerFields
    /\ pointer_list = <<>>
    /\ uploads = {}
    /\ pages = <<>>
    /\ status = NoStatus
    /\ payload = None
    /\ sentence = Idle /\ pointer = Idle /\ score = None
    /\ page_text = Idle /\ max_snippets = 0 /\ snippets = Idle
    /\ entry = None

\* Lines 108-119: a field that is rejected raises HTTPException(400).
RejectPointers ==
    /\ pc = "request"
    /\ Rejection(pointers) # ""
    /\ status' = [code |-> 400, detail |-> Rejection(pointers)]
    /\ pc' = "rejected"
    /\ UNCHANGED <<sentence, pointer, score, page_text, max_snippets, snippets,
                   pages, entry, pointers, pointer_list, uploads, payload>>

\* Lines 108-119: a field that passes leaves its list in pointer_list.
AcceptPointers ==
    /\ pc = "request"
    /\ Rejection(pointers) = ""
    /\ pointer_list' = json_loads(pointers).items
    /\ pc' = "validated"
    /\ UNCHANGED <<sentence, pointer, score, page_text, max_snippets, snippets,
                   pages, entry, pointers, uploads, status, payload>>

\* Lines 121-126: the upload is written under UPLOAD_DIR.
StoreUpload ==
    /\ pc = "validated"
    /\ uploads' = uploads \cup {FileName}
    /\ pc' = "stored"
    /\ UNCHANGED <<sentence, pointer, score, page_text, max_snippets, snippets,
                   pages, entry, pointers, pointer_list, status, payload>>

\* Line 128: the stored file is decoded into pages.
LoadPdfPages ==
    /\ pc = "stored"
    /\ \E doc \in Documents : pages' = load_pdf_pages(doc)
    /\ pc' = "loaded"
    /\ UNCHANGED <<sentence, pointer, score, page_text, max_snippets, snippets,
                   entry, pointers, pointer_list, uploads, status, payload>>

\* Line 128: PdfReader raises on a file that is no PDF; nothing catches it.
LoadPdfFails ==
    /\ pc = "stored"
    /\ status' = [code |-> 500, detail |-> "Internal Server Error"]
    /\ pc' = "failed"
    /\ UNCHANGED <<sentence, pointer, score, page_text, max_snippets, snippets,
                   pages, entry, pointers, pointer_list, uploads, payload>>

\* Lines 129-134: the payload, one report per pointer.
Respond ==
    /\ pc = "loaded"
    /\ payload' = Some([fileName |-> FileName,
                        storedPath |-> FileName,
                        pointers |-> pointer_reports(
                            [k \in 1..Len(pointer_list) |-> pointer_list[k].v],
                            pages)])
    /\ status' = [code |-> 200, detail |-> ""]
    /\ pc' = "done"
    /\ UNCHANGED <<sentence, pointer, score, page_text, max_snippets, snippets,
                   pages, entry, pointers, pointer_list, uploads>>

Next ==
    \/ RejectPointers
    \/ AcceptPointers
    \/ StoreUpload
    \/ LoadPdfPages
    \/ LoadPdfFails
    \/ Respond

Spec == Init /\ [][Next]_vars

-----------------------------------------------------------------------------
(* Properties of compute_similarity (SpecSim).                             *)

\* The word tokens of p as offsets [lo, hi): the maximal runs of word
\* characters.
TokenSpans(p) ==
    {sp \in (0..Len(p)) \X (0..Len(p)) :
        /\ sp[1] < sp[2]
        /\ \A k \in (sp[1] + 1)..sp[2] : p[k] \in WordChars
        /\ sp[1] = 0 \/ p[sp[1]] \notin WordChars
        /\ sp[2] = Len(p) \/ p[sp[2] + 1] \notin WordChars}
\* p[lo:hi] occurs in s at some offset.
OccursIn(s, p, lo, hi) ==
    \E off \in 0..(Len(s) - (hi - lo)) :
        \A k \in 1..(hi - lo) : s[off + k] = p[lo + k]
TokenHits(s, p) ==
    Cardinality({sp \in TokenSpans(p) : OccursIn(s, p, sp[1], sp[2])})

\* C10: the keyword-hit count is the number of word tokens of the lower-cased
\* pointer, each occurrence of a token counted, that occur as a substring of
\* the lower-cased sentence, and the score is the character ratio plus one
\* tenth of that count.
C10_KeywordHitsCountTokens ==
    pc = "similarity_done" =>
        LET hits == TokenHits(Lower(sentence), Lower(pointer))
        IN  /\ keyword_hits(sentence, pointer) = hits
            /\ FracEq(score[1],
                      FracAdd(Ratio(Lower(sentence), Lower(pointer)),
                              [num |-> hits, den |-> 10]))

\* The pointer "A a" against the sentence "bA": the token a, twice in the
\* pointer, occurs only inside the word ba; ratio 2/5 and two hits.
C10_Witness ==
    /\ pc = "similarity_done"
    /\ pointer = <<"A", " ", "a">>
    /\ sentence = <<"b", "A">>
    /\ FracEq(score[1], [num |-> 6, den |-> 10])

-----------------------------------------------------------------------------
(* Properties of find_snippets (SpecSnip).                                 *)

\* C2: the raw spans are the maximal runs of characters other than . ! ?,
\* each with at most one terminator after it: a span starts at the start of
\* the text or right after a terminator, ends at the end of the text or with
\* a terminator, has no terminator before its last character, and every
\* character that is no terminator lies in exactly one span.
C2_SpansSplitOnlyAtTerminators ==
    pc = "snippets_done" =>
        LET spans == finditer(page_text)
        IN  /\ \A k \in 1..Len(spans) :
                 /\ spans[k].start = 0 \/ page_text[spans[k].start] \in Terminators
                 /\ \/ spans[k].end = Len(page_text)
                    \/ page_text[spans[k].end] \in Terminators
                 /\ \A i \in (spans[k].start + 1)..(spans[k].end - 1) :
                        page_text[i] \notin Terminators
            /\ \A i \in 1..Len(page_text) :
                 page_text[i] \notin Terminators =>
                     Cardinality({k \in 1..Len(spans) :
                                    spans[k].start < i /\ i <= spans[k].end}) = 1

\* C4 as stated: every candidate's snippet is page_text[start:end].
C4_SnippetIsSliceAtOffsets ==
    pc = "snippets_done" =>
        \A k \in 1..Len(snippets[1]) :
            LET c == snippets[1][k]
            IN  /\ 0 <= c.start /\ c.start < c.end /\ c.end <= Len(page_text)
                /\ c.snippet = Slice(page_text, c.start, c.end)

\* C4, amended: every candidate's offsets lie in the page, 0 <= start < end
\* <= len(page_text), and its snippet is page_text[start:end] without the
\* whitespace at its two ends: the snippet is page_text[lo:hi] for some
\* start <= lo < hi <= end, it neither starts nor ends with whitespace, and
\* page_text[start:lo] and page_text[hi:end] are whitespace.
C4_SnippetIsStrippedSliceAtOffsets ==
    pc = "snippets_done" =>
        \A k \in 1..Len(snippets[1]) :
            LET c == snippets[1][k]
            IN  /\ 0 <= c.start /\ c.start < c.end /\ c.end <= Len(page_text)
                /\ \E lo \in c.start..(c.end - 1) :
                     \E hi \in (lo + 1)..c.end :
                        /\ c.snippet = [i \in 1..(hi - lo) |-> page_text[lo + i]]
                        /\ page_text[lo + 1] \notin Whitespace
                        /\ page_text[hi] \notin Whitespace
                        /\ \A i \in (c.start + 1)..lo : page_text[i] \in Whitespace
                        /\ \A i \in (hi + 1)..c.end : page_text[i] \in Whitespace

\* A candidate whose span starts or ends with whitespace was returned.
C4_Witness ==
    /\ pc = "snippets_done"
    /\ \E k \in 1..Len(snippets[1]) :
         /\ Len(snippets[1][k].snippet) < snippets[1][k].end - snippets[1][k].start
         /\ snippets[1][k].start > 0

\* The spans with a character that is no whitespace.
NonEmptySpans(text) ==
    {k \in 1..Len(finditer(text)) :
        \E i \in (finditer(text)[k].start + 1)..finditer(text)[k].end :
            text[i] \notin Whitespace}

\* The place of the k-th candidate in the ranking: after every candidate of a
\* higher score and every earlier candidate of the same score.
RankOf(all, k) ==
    1 + Cardinality({m \in 1..Len(all) : FracLess(all[k].score, all[m].score)})
      + Cardinality({m \in 1..(k - 1) : FracEq(all[k].score, all[m].score)})

\* C5: find_snippets returns min(max_snippets, n) candidates, n the number of
\* spans not empty after trimming, whatever their scores: the first ones of
\* all n candidates by score descending, equal scores in scan order.
C5_TopKByScoreStable ==
    pc = "snippets_done" =>
        LET all == candidates(page_text, pointer)
            n == Cardinality(NonEmptySpans(page_text))
            got == snippets[1]
        IN  /\ Len(all) = n
            /\ Len(got) = Min(max_snippets, n)
            /\ \A k \in 1..Len(all) :
                 RankOf(all, k) <= Len(got) => got[RankOf(all, k)] = all[k]

\* Three candidates, two of them kept, the first of the scan dropped, and two
\* of the three with the same score.
C5_Witness ==
    /\ pc = "snippets_done"
    /\ max_snippets = 2
    /\ LET all == candidates(page_text, pointer)
       IN  /\ Len(all) = 3
           /\ Len(snippets[1]) = 2
           /\ \A k \in 1..2 : snippets[1][k] # all[1]
           /\ FracEq(all[2].score, all[3].score)
           /\ snippets[1] = <<all[2], all[3]>>

-----------------------------------------------------------------------------
(* Properties of build_response_entry (SpecEntry).                         *)

\* C1: for a single page numbered p holding the sample sentence and the
\* pointer "total contract value", the report has a match whose snippet is
\* the whole sentence, its period included, and whose page is p.
C1_SampleSentenceMatched ==
    (/\ pc = "entry_done"
     /\ Len(pages) = 1
     /\ pages[1].text = SampleSentence
     /\ pointer = SamplePointer) =>
        \E k \in 1..Len(entry[1].matches) :
            /\ entry[1].matches[k].snippet = SampleSentence
            /\ entry[1].matches[k].page = Some(pages[1].page)

\* No page of the sequence gives a candidate.
NoCandidates(ptr, pgs) ==
    \A k \in 1..Len(pgs) : candidates(pgs[k].text, ptr) = <<>>

\* C3: the matches are never empty; they are the one synthetic entry exactly
\* when no page produced a candidate, and otherwise no entry has a null page.
C3_MatchesNeverEmpty ==
    pc = "entry_done" =>
        LET matches == entry[1].matches
        IN  /\ Len(matches) >= 1
            /\ NoCandidates(pointer, pages) <=>
                 matches = <<[snippet |-> <<>>, page |-> None, start |-> None,
                              end |-> None,
                              rationale |->
                                  [text |-> "No matching text found for the pointer.",
                                   pointer |-> <<>>, similarity |-> None]]>>
            /\ ~NoCandidates(pointer, pages) =>
                 \A k \in 1..Len(matches) : matches[k].page # None

\* Pages were given, none with a sentence, and the synthetic entry came back.
C3_Witness ==
    /\ pc = "entry_done"
    /\ Len(pages) >= 1
    /\ Len(entry[1].matches) = 1
    /\ entry[1].matches[1].page = None
    /\ entry[1].matches[1].snippet = <<>>

\* C6: the matches are in ascending order of page, and the entries of one
\* page are in non-increasing order of similarity score.
C6_GroupedByPageRankedWithin ==
    pc = "entry_done" =>
        LET matches == entry[1].matches
        IN  \A i, j \in 1..Len(matches) :
                (i < j /\ matches[i].page # None /\ matches[j].page # None) =>
                    /\ matches[i].page[1] <= matches[j].page[1]
                    /\ matches[i].page[1] = matches[j].page[1] =>
                         ~FracLess(compute_similarity(matches[i].snippet, pointer),
                                   compute_similarity(matches[j].snippet, pointer))

\* Two pages given last page first, each with two matches, the better one a
\* later sentence of its page, and a match of page 2 scoring above one of
\* page 1 that precedes it.
C6_Witness ==
    /\ pc = "entry_done"
    /\ Len(pages) = 2
    /\ pages[1].page > pages[2].page
    /\ LET matches == entry[1].matches
       IN  /\ Len(matches) = 4
           /\ matches[1].start[1] > matches[2].start[1]
           /\ FracLess(compute_similarity(matches[2].snippet, pointer),
                       compute_similarity(matches[1].snippet, pointer))
           /\ FracLess(compute_similarity(matches[2].snippet, pointer),
                       compute_similarity(matches[3].snippet, pointer))

\* The pages in the order perm.
Reordered(pgs, perm) == [k \in 1..Len(pgs) |-> pgs[perm[k]]]

\* C9: the matches are the same for every order of the page sequence.
C9_PageOrderIrrelevant ==
    pc = "entry_done" =>
        \A perm \in Permutations(1..Len(pages)) :
            build_response_entry(pointer, Reordered(pages, perm)).matches
                = entry[1].matches

\* Pages given out of page order, with matches on more than one page.
C9_Witness ==
    /\ pc = "entry_done"
    /\ Len(pages) >= 2
    /\ pages[1].page > pages[2].page
    /\ \E i, j \in 1..Len(entry[1].matches) :
         /\ entry[1].matches[i].page # None
         /\ entry[1].matches[j].page # None
         /\ entry[1].matches[i].page # entry[1].matches[j].page

-----------------------------------------------------------------------------
(* Properties of extract_facts (Spec).                                     *)

\* The pointers field is a JSON array of one or more strings: [ s , s ... ].
IsStringArray(toks) ==
    /\ Len(toks) >= 3
    /\ Len(toks) % 2 = 1
    /\ toks[1].t = "lb"
    /\ toks[Len(toks)].t = "rb"
    /\ \A k \in 2..(Len(toks) - 1) :
         toks[k].t = IF k % 2 = 0 THEN "str" ELSE "comma"

\* C7: the response has one report per pointer of the request, the i-th for
\* the i-th pointer, duplicates included, and every match with a page carries
\* the number of one of the extracted pages.
C7_OneReportPerPointerInOrder ==
    pc = "done" =>
        LET reports == payload[1].pointers
        IN  /\ Len(reports) = (Len(pointers) - 1) \div 2
            /\ \A i \in 1..Len(reports) :
                 /\ reports[i].pointer = pointers[2 * i].v
                 /\ \A k \in 1..Len(reports[i].matches) :
                      reports[i].matches[k].page # None =>
                          \E g \in 1..Len(pages) :
                              reports[i].matches[k].page = Some(pages[g].page)

\* Three pages and the same pointer twice: two reports, with matches on
\* page 3.
C7_Witness ==
    /\ pc = "done"
    /\ Len(pages) = 3
    /\ pointers = <<LB, StrTok(<<"a">>), Comma, StrTok(<<"a">>), RB>>
    /\ Len(payload[1].pointers) = 2
    /\ \E k \in 1..Len(payload[1].pointers[2].matches) :
         payload[1].pointers[2].matches[k].page = Some(3)

\* C8: a pointers field that is no JSON array of one or more strings is
\* answered with 400 and nothing else happens: no file is written, no PDF
\* decoded, no pointer analysed, then or later; the analysis runs only on a
\* non-empty list of strings.
C8_InvalidPointersRejectedFirst ==
    /\ (pc # "request" /\ ~IsStringArray(pointers)) =>
           pc = "rejected" /\ status.code = 400
    /\ pc = "rejected" =>
           /\ status.code = 400
           /\ uploads = {} /\ pages = <<>> /\ payload = None
           /\ ~ENABLED Next
    /\ (pc \in {"stored", "loaded", "done", "failed"} \/ payload # None) =>
           /\ pointer_list # <<>>
           /\ \A k \in 1..Len(pointer_list) : pointer_list[k].type = "str"

\* An array with a number in it was rejected with nothing stored.
C8_Witness ==
    /\ pc = "rejected"
    /\ pointers = <<LB, StrTok(<<"a">>), Comma, NumTok(<<"1">>), RB>>
    /\ status = [code |-> 400, detail |-> "All pointers must be strings"]
    /\ uploads = {}

=============================================================================
